---- MODULE Spec2Model ----
(***************************************************************************)
(* State-machine model of the MediMetrics inference service,               *)
(* medimetrics-enterprise/apps/inference/src/server/main.py.               *)
(*                                                                         *)
(* Spec is the job side: the job endpoints (enqueue_job, get_job_status,   *)
(* cancel_job), the Redis job records with their time-to-live, the rq      *)
(* queue the admission check reads and the webhook tasks enqueue_job       *)
(* schedules.  The worker-side lifecycle operations (claim,                *)
(* report_progress, complete, fail, ack_cancel) and the queue's dequeue    *)
(* have no code in main.py; they are modelled from the design document's   *)
(* sections 4.2/4.4 and write through to the same job records.             *)
(*                                                                         *)
(* SpecWebhook is the webhook channel: submissions schedule tasks,         *)
(* send_webhook signs and posts them or fails, the delivery may be altered *)
(* on its way, and receive_webhook verifies it.                            *)
(*                                                                         *)
(* SpecModels is the model catalogue and the ETA of a submission.          *)
(*                                                                         *)
(* Two components of biotensor-agi are modelled next to the service:       *)
(* SpecFhir is FHIRClient._make_request (data-ingestion/fhir_client.py),   *)
(* SpecOrchestrator is AgentOrchestrator (agents/orchestrator.py) with a   *)
(* fair process_tasks loop.                                                *)
(***************************************************************************)
EXTENDS Integers, Sequences, FiniteSets, TLC

\* ------------------------------------------------------------------ bounds
NumJobs == 2          \* distinct job_id values a caller may present
MaxQueueLen == 1      \* longest rq queue content found at start-up
MaxQueueCfg == 0      \* largest configured MAX_QUEUE_SIZE explored
MaxRequests == 2      \* accepted submissions in one run of the service

\* ------------------------------------------------------------- input sets
AllJobIds == <<"j1", "j2", "j3", "j4">>
JobIds == {AllJobIds[i] : i \in 1..NumJobs}
Studies == {"s1"}
Models == {"densenet121_chex", "unknown-model"}
Priorities == {"NORMAL", "URGENT"}
ImageCounts == {2}
None == "None"                          \* Python's None
CallbackUrls == {None, "http://cb"}
ApiKeys == {"", "k1"}                   \* API_KEY: unset (""), or set
HeaderKeys == {None, "k1"}              \* X-API-Key header: absent, or k1
Pcts == {0, 50}
Results == {"score 0.9", "score 0.1"}   \* payloads a worker may pass to complete
Errors == {"inference failed"}           \* causes a worker may pass to fail

InferenceRequest ==
  [job_id : JobIds, study_id : Studies, model : Models,
   priority : Priorities, images : ImageCounts, callback_url : CallbackUrls]

\* ------------------------------------------------------------ outcomes
HTTP_200 == "200"
HTTP_401 == "401"          \* Invalid API key
HTTP_503 == "503"          \* Queue is full  (ErrorKind.QueueFull)
HTTP_404 == "404"          \* Job not found  (ErrorKind.NotFound)
HTTP_500 == "500"          \* an exception left a handler
DefaultSecret == "secret"  \* WEBHOOK_HMAC_SECRET when the environment sets none
\* Error kinds of the design document that no handler of main.py produces.
InvalidModel == "InvalidModel"
DuplicateJobId == "DuplicateJobId"
AlreadyTerminal == "AlreadyTerminal"
\* Outcomes of the worker-side lifecycle operations.
LifecycleOk == "ok"
InvalidTransition == "InvalidTransition"

Terminal == {"SUCCEEDED", "FAILED", "CANCELLED"}

\* ------------------------------------------------------------------ state
VARIABLES
  API_KEY,          \* os.getenv("API_KEY", "")
  MAX_QUEUE_SIZE,   \* int(os.getenv("MAX_QUEUE_SIZE", "1000"))
  redis_client,     \* job_id -> the JSON record under key job:{job_id}, or NoRecord
  inference_queue,  \* the rq queue 'inference_queue': a sequence of job ids
  background_tasks, \* webhook tasks scheduled by add_task and not yet run
  inference_requests, \* the Prometheus counter of accepted submissions
  WEBHOOK_HMAC_SECRET, \* the secret the service signs and verifies webhooks with
  wire,            \* the last webhook attempt: the POST that reached the
                   \* receiver, or the failure that was logged
  submitted,        \* history: job_id -> priority requested for the record now stored, or None
  resp,             \* the last response returned to a caller
  task_queue,       \* AgentOrchestrator.task_queue: the requests put and not yet got
  active_tasks,     \* AgentOrchestrator.active_tasks: task id -> status record
  loop_request,     \* process_tasks: the request it holds between get() and the
                    \* end of the iteration, None while it waits in get()
  resubmitted,      \* history: the task ids passed to submit_task more than once
  access_token,     \* FHIRClient._access_token: 0 is None, n the n-th token issued
  call              \* the frame of the running or last _make_request call

vars == <<API_KEY, MAX_QUEUE_SIZE, redis_client, inference_queue,
          background_tasks, inference_requests, WEBHOOK_HMAC_SECRET, wire,
          submitted, resp, task_queue, active_tasks, loop_request,
          resubmitted, access_token, call>>

\* The state of the biotensor-agi components and that of the inference service.
biotensor == <<task_queue, active_tasks, loop_request, resubmitted, access_token, call>>
medimetrics == <<API_KEY, MAX_QUEUE_SIZE, redis_client, inference_queue,
                 background_tasks, inference_requests, WEBHOOK_HMAC_SECRET, wire,
                 submitted, resp>>

\* ------------------------------------------------ biotensor-agi input sets
MaxTasks == 2         \* requests waiting in task_queue at one time
MaxRetries == 3       \* largest FHIRConfig.max_retries explored (its default)
MaxTokens == 5        \* access tokens the token endpoint issues in one run

TaskIds == {"t1", "t2"}
TaskTypes == {"triage", "imaging_analysis"}
TaskRequest == [id : TaskIds, type : TaskTypes]

\* process_tasks holds no request (request is unbound, or done with).
NoRequest == [id |-> "None", type |-> "None"]

\* get_task_status's answer for an id active_tasks does not hold.
NoTask == [status |-> "not_found"]

\* No _make_request call made yet.
NoCall == [pc |-> "idle", max_retries |-> 0, attempt |-> 0, headers |-> 0,
           requests |-> <<>>, result |-> "None"]

\* AgentOrchestrator.__init__ and FHIRClient.__init__.
InitBiotensor ==
  /\ task_queue = <<>>
  /\ active_tasks = [id \in TaskIds |-> NoTask]
  /\ loop_request = NoRequest
  /\ resubmitted = {}
  /\ access_token = 0
  /\ call = NoCall

NoRecord == [absent |-> TRUE]
NoWire == [absent |-> TRUE]
LoggedError == [error |-> "Failed to send webhook"]

Has(j) == redis_client[j] # NoRecord

RECURSIVE SeqsUpTo(_, _)
SeqsUpTo(S, n) ==
  IF n = 0 THEN {<<>>}
  ELSE LET shorter == SeqsUpTo(S, n - 1)
       IN shorter \cup {Append(s, x) : s \in {t \in shorter : Len(t) = n - 1}, x \in S}

\* inference_queue.count
count == Len(inference_queue)

\* A faulty variant of estimate_processing_time, which gives every model the
\* default base; C23 tells it from estimate_processing_time.
estimate_flat(model, image_count) == 30 + (image_count * 5)

estimate_processing_time(model, image_count) ==
  LET base == CASE model = "densenet121_chex" -> 30
                [] model = "unet_segmentation" -> 45
                [] model = "ensemble" -> 60
                [] OTHER -> 30
      per_image_time == 5
  IN base + (image_count * per_image_time)

\* The module-level start: the configuration is read from the environment,
\* the Redis-backed rq queue is attached with whatever it already holds.
Init ==
  /\ API_KEY \in ApiKeys
  /\ MAX_QUEUE_SIZE \in 0..MaxQueueCfg
  /\ redis_client = [j \in JobIds |-> NoRecord]
  /\ inference_queue \in SeqsUpTo(JobIds, MaxQueueLen)
  /\ background_tasks = {}
  /\ inference_requests = 0
  /\ WEBHOOK_HMAC_SECRET = DefaultSecret
  /\ wire = NoWire
  /\ submitted = [j \in JobIds |-> None]
  /\ resp = [op |-> "start", job_id |-> None, code |-> HTTP_200, body |-> NoRecord]
  /\ InitBiotensor

Reply(op, j, code, body) == [op |-> op, job_id |-> j, code |-> code, body |-> body]

\* The record enqueue_job stores with setex.
\* ---------------------------------------------------------------------------
\* Webhooks.  A payload is a Python dict: its items in insertion order.
\* ---------------------------------------------------------------------------
\* Keys whose values are JSON numbers; every other value is a JSON string.
IntKeys == {"progress", "sequence"}

Item(kv) ==
  "\"" \o kv[1] \o "\": " \o
  (IF kv[1] \in IntKeys THEN ToString(kv[2]) ELSE "\"" \o kv[2] \o "\"")

RECURSIVE Join(_)
Join(items) ==
  IF items = <<>> THEN ""
  ELSE IF Len(items) = 1 THEN Item(items[1])
  ELSE Item(items[1]) \o ", " \o Join(Tail(items))

\* json.dumps(payload): the items in the dict's order, default separators.
json_dumps(payload) == "{" \o Join(payload) \o "}"

\* hmac.new(key, msg, sha256).hexdigest(), taken as collision-free.
hmac_hexdigest(key, msg) == "hmac-sha256(" \o key \o "; " \o msg \o ")"

\* The signature send_webhook computes over a payload.
Signature(secret, payload) == hmac_hexdigest(secret, json_dumps(payload))

\* A POST as the receiver gets it; signed remembers what the sender signed
\* and with which secret.
Post(url, payload, signature) ==
  [url |-> url, payload |-> payload, x_signature |-> signature,
   signed |-> [secret |-> WEBHOOK_HMAC_SECRET, payload |-> payload]]

\* Python truthiness of an optional string.
Truthy(s) == s # None /\ s # ""

QueuedPayload(request) ==
  << <<"job_id", request.job_id>>, <<"status", "QUEUED">>, <<"progress", 0>> >>

\* A faulty variant of WebhookTasks, which schedules the initial webhook
\* whether or not a callback_url was given; C18 tells it from WebhookTasks.
WebhookTasksAlways(request) ==
  {[url |-> request.callback_url, payload |-> QueuedPayload(request)]}

\* The background tasks enqueue_job adds for a request.
WebhookTasks(request) ==
  IF Truthy(request.callback_url)
  THEN {[url |-> request.callback_url, payload |-> QueuedPayload(request)]}
  ELSE {}

QueuedRecord(request) ==
  [status |-> "QUEUED", progress |-> 0,
   study_id |-> request.study_id, model |-> request.model]

\* A faulty variant of enqueue_job, which counts the submission and writes
\* the record before it checks the queue size; C26 tells it from enqueue_job.
enqueue_job_eager(request, x_api_key) ==
  IF API_KEY # "" /\ x_api_key # API_KEY
  THEN /\ resp' = Reply("enqueue_job", request.job_id, HTTP_401, NoRecord)
       /\ UNCHANGED <<biotensor, API_KEY, MAX_QUEUE_SIZE, inference_requests, WEBHOOK_HMAC_SECRET,
                      wire, redis_client, inference_queue, background_tasks, submitted>>
  ELSE /\ inference_requests < MaxRequests
       /\ redis_client' = [redis_client EXCEPT ![request.job_id] = QueuedRecord(request)]
       /\ inference_requests' = inference_requests + 1
       /\ submitted' = [submitted EXCEPT ![request.job_id] = request.priority]
       /\ IF count > MAX_QUEUE_SIZE
          THEN /\ resp' = Reply("enqueue_job", request.job_id, HTTP_503, NoRecord)
               /\ UNCHANGED background_tasks
          ELSE /\ background_tasks' = background_tasks \cup WebhookTasks(request)
               /\ resp' = Reply("enqueue_job", request.job_id, HTTP_200,
                                [job_id |-> request.job_id, status |-> "QUEUED",
                                 position |-> 1,
                                 estimated_time |->
                                   estimate_processing_time(request.model, request.images)])
       /\ UNCHANGED <<biotensor, API_KEY, MAX_QUEUE_SIZE, WEBHOOK_HMAC_SECRET, wire, inference_queue>>

\* POST /v1/jobs.  Redis is taken to answer: the except branch (500) that a
\* Redis error would take is left out.
enqueue_job(request, x_api_key) ==
  IF API_KEY # "" /\ x_api_key # API_KEY
  THEN /\ resp' = Reply("enqueue_job", request.job_id, HTTP_401, NoRecord)
       /\ UNCHANGED <<biotensor, API_KEY, MAX_QUEUE_SIZE, inference_requests, WEBHOOK_HMAC_SECRET, wire, redis_client, inference_queue,
                      background_tasks, submitted>>
  ELSE IF count > MAX_QUEUE_SIZE
  THEN /\ resp' = Reply("enqueue_job", request.job_id, HTTP_503, NoRecord)
       /\ UNCHANGED <<biotensor, API_KEY, MAX_QUEUE_SIZE, inference_requests, WEBHOOK_HMAC_SECRET, wire, redis_client, inference_queue,
                      background_tasks, submitted>>
  ELSE /\ inference_requests < MaxRequests
       /\ redis_client' = [redis_client EXCEPT ![request.job_id] = QueuedRecord(request)]
       /\ inference_requests' = inference_requests + 1
       /\ background_tasks' = background_tasks \cup WebhookTasks(request)
       /\ submitted' = [submitted EXCEPT ![request.job_id] = request.priority]
       /\ resp' = Reply("enqueue_job", request.job_id, HTTP_200,
                        [job_id |-> request.job_id, status |-> "QUEUED", position |-> 1,
                         estimated_time |->
                           estimate_processing_time(request.model, request.images)])
       /\ UNCHANGED <<biotensor, API_KEY, MAX_QUEUE_SIZE, WEBHOOK_HMAC_SECRET, wire, inference_queue>>

\* A faulty variant of get_job_status, which answers a missing job with a
\* default QUEUED view; C22 tells it from get_job_status.
get_job_status_default(job_id) ==
  /\ resp' = IF Has(job_id)
             THEN Reply("get_job_status", job_id, HTTP_200, redis_client[job_id])
             ELSE Reply("get_job_status", job_id, HTTP_200,
                        [status |-> "QUEUED", progress |-> 0])
  /\ UNCHANGED <<biotensor, API_KEY, MAX_QUEUE_SIZE, inference_requests, WEBHOOK_HMAC_SECRET, wire, redis_client,
                 inference_queue, background_tasks, submitted>>

\* GET /v1/jobs/{job_id}
get_job_status(job_id) ==
  /\ resp' = IF Has(job_id)
             THEN Reply("get_job_status", job_id, HTTP_200, redis_client[job_id])
             ELSE Reply("get_job_status", job_id, HTTP_404, NoRecord)
  /\ UNCHANGED <<biotensor, API_KEY, MAX_QUEUE_SIZE, inference_requests, WEBHOOK_HMAC_SECRET, wire, redis_client, inference_queue,
                 background_tasks, submitted>>

\* DELETE /v1/jobs/{job_id}
cancel_job(job_id) ==
  /\ redis_client' = [redis_client EXCEPT ![job_id] = NoRecord]
  /\ submitted' = [submitted EXCEPT ![job_id] = None]
  /\ resp' = Reply("cancel_job", job_id, HTTP_200, NoRecord)
  /\ UNCHANGED <<biotensor, API_KEY, MAX_QUEUE_SIZE, inference_requests, WEBHOOK_HMAC_SECRET, wire, inference_queue, background_tasks>>

\* The 3600 s time-to-live setex puts on every record runs out.
\* DELETE /v1/jobs/{job_id} as a client sends it: the handler declares no
\* X-API-Key parameter, so the header a request carries is not read.
cancel_request(job_id, x_api_key) == cancel_job(job_id)

expire(job_id) ==
  /\ Has(job_id)
  /\ redis_client' = [redis_client EXCEPT ![job_id] = NoRecord]
  /\ submitted' = [submitted EXCEPT ![job_id] = None]
  /\ UNCHANGED <<biotensor, API_KEY, MAX_QUEUE_SIZE, inference_requests, WEBHOOK_HMAC_SECRET, wire, inference_queue, background_tasks, resp>>

\* A scheduled background task runs send_webhook once, after the response of
\* the request that scheduled it: the POST reaches the receiver, or the
\* attempt raises, which is logged and swallowed.  send_webhook_raising is a
\* faulty variant that lets the failure through to the response; C19 tells
\* it from send_webhook.
send_webhook_raising(task, delivered) ==
  /\ task \in background_tasks
  /\ background_tasks' = background_tasks \ {task}
  /\ wire' = IF delivered
             THEN Post(task.url, task.payload,
                       Signature(WEBHOOK_HMAC_SECRET, task.payload))
             ELSE LoggedError
  /\ resp' = IF delivered THEN resp
             ELSE Reply(resp.op, resp.job_id, HTTP_500, NoRecord)
  /\ UNCHANGED <<biotensor, API_KEY, MAX_QUEUE_SIZE, inference_requests, WEBHOOK_HMAC_SECRET, redis_client,
                 inference_queue, submitted>>

send_webhook(task, delivered) ==
  /\ task \in background_tasks
  /\ background_tasks' = background_tasks \ {task}
  /\ wire' = IF delivered
             THEN Post(task.url, task.payload,
                       Signature(WEBHOOK_HMAC_SECRET, task.payload))
             ELSE LoggedError
  /\ UNCHANGED <<biotensor, API_KEY, MAX_QUEUE_SIZE, inference_requests, WEBHOOK_HMAC_SECRET, redis_client,
                 inference_queue, submitted, resp>>

\* ---------------------------------------------------------------------------
\* Worker-side operations.  main.py holds no code for them; they follow the
\* design document (Priority Queue 4.2, Lifecycle Manager 4.4) and write
\* through to the job record.
\* ---------------------------------------------------------------------------
StatusIs(job_id, S) == Has(job_id) /\ redis_client[job_id].status \in S

Transition(op, job_id, from, record) ==
  /\ IF StatusIs(job_id, from)
     THEN /\ redis_client' = [redis_client EXCEPT ![job_id] = record]
          /\ resp' = Reply(op, job_id, LifecycleOk, NoRecord)
     ELSE /\ resp' = Reply(op, job_id, InvalidTransition, NoRecord)
          /\ UNCHANGED redis_client
  /\ UNCHANGED <<biotensor, API_KEY, MAX_QUEUE_SIZE, inference_requests, WEBHOOK_HMAC_SECRET, wire, inference_queue, background_tasks, submitted>>

claim(job_id) ==
  Transition("claim", job_id, {"QUEUED"},
             [redis_client[job_id] EXCEPT !.status = "RUNNING"])

report_progress(job_id, pct) ==
  Transition("report_progress", job_id, {"RUNNING", "CANCELLING"},
             [redis_client[job_id] EXCEPT
                !.progress = IF pct > @ THEN pct ELSE @])

\* JobStatus.results / JobStatus.error are optional and absent by default: a
\* record carries the field only once it is populated.
Populated(record, field) == field \in DOMAIN record

\* A faulty variant of complete, which accepts a report in any non-terminal
\* status; C14 tells it from complete.
complete_unguarded(job_id, result) ==
  Transition("complete", job_id, {"QUEUED", "RUNNING", "CANCELLING"},
             [results |-> result] @@
             [redis_client[job_id] EXCEPT !.status = "SUCCEEDED"])

\* A faulty variant of fail, which stores the cause as a result; C15 tells it
\* from fail.
fail_as_result(job_id, error) ==
  Transition("fail", job_id, {"RUNNING"},
             [results |-> error] @@
             [redis_client[job_id] EXCEPT !.status = "FAILED"])

complete(job_id, result) ==
  Transition("complete", job_id, {"RUNNING"},
             [results |-> result] @@
             [redis_client[job_id] EXCEPT !.status = "SUCCEEDED"])

fail(job_id, error) ==
  Transition("fail", job_id, {"RUNNING"},
             [error |-> error] @@
             [redis_client[job_id] EXCEPT !.status = "FAILED"])

ack_cancel(job_id) ==
  Transition("ack_cancel", job_id, {"CANCELLING"},
             [redis_client[job_id] EXCEPT !.status = "CANCELLED"])

\* A worker unit takes the head of the queue.
dequeue ==
  /\ inference_queue # <<>>
  /\ inference_queue' = Tail(inference_queue)
  /\ UNCHANGED <<biotensor, API_KEY, MAX_QUEUE_SIZE, inference_requests, WEBHOOK_HMAC_SECRET, wire, redis_client, background_tasks,
                 submitted, resp>>

\* A faulty variant of remove, which drops the head of the queue whatever
\* job it was asked for; C25 tells it from remove.
remove_head(job_id) ==
  /\ inference_queue' = IF inference_queue = <<>> THEN <<>> ELSE Tail(inference_queue)
  /\ resp' = Reply("remove", job_id, LifecycleOk, [removed |-> inference_queue # <<>>])
  /\ UNCHANGED <<biotensor, API_KEY, MAX_QUEUE_SIZE, inference_requests, WEBHOOK_HMAC_SECRET, wire, redis_client,
                 background_tasks, submitted>>

\* The queue's remove: takes a still-queued job out and returns true, and is
\* a no-op returning false for a job that is not (or no longer) queued.
remove(job_id) ==
  /\ inference_queue' = SelectSeq(inference_queue, LAMBDA x : x # job_id)
  /\ resp' = Reply("remove", job_id, LifecycleOk,
                   [removed |-> \E i \in DOMAIN inference_queue :
                                  inference_queue[i] = job_id])
  /\ UNCHANGED <<biotensor, API_KEY, MAX_QUEUE_SIZE, inference_requests, WEBHOOK_HMAC_SECRET, wire, redis_client,
                 background_tasks, submitted>>

Next ==
  \/ \E request \in InferenceRequest, x_api_key \in HeaderKeys :
        enqueue_job(request, x_api_key)
  \/ \E job_id \in JobIds : get_job_status(job_id)
  \/ \E job_id \in JobIds : cancel_job(job_id)
  \/ \E job_id \in JobIds : expire(job_id)
  \/ \E job_id \in JobIds : claim(job_id)
  \/ \E job_id \in JobIds, pct \in Pcts : report_progress(job_id, pct)
  \/ \E job_id \in JobIds, result \in Results : complete(job_id, result)
  \/ \E job_id \in JobIds, error \in Errors : fail(job_id, error)
  \/ \E job_id \in JobIds : ack_cancel(job_id)
  \/ dequeue
  \/ \E job_id \in JobIds : remove(job_id)

Spec == Init /\ [][Next]_vars

\* ---------------------------------------------------------------------------
\* The webhook channel: the scheduled tasks run, the POST travels to the
\* receiver, where anyone on the way may alter it, and receive_webhook
\* verifies it.
\* ---------------------------------------------------------------------------
Secrets == {"", DefaultSecret}     \* WEBHOOK_HMAC_SECRET: unset, or the default
PeerSecrets == {"other"}           \* secrets of senders that do not share ours
IsPost(w) == "x_signature" \in DOMAIN w

\* Python's `x or default` on an optional string.
Or(x, default) == IF Truthy(x) THEN x ELSE default

compare_digest(a, b) == a = b

\* A faulty variant of expected_sig, which forgets the configured secret;
\* C17 tells it from expected_sig.
expected_sig_unkeyed(payload) == hmac_hexdigest("", json_dumps(payload))

\* The signature receive_webhook computes over the payload it was handed.
expected_sig(payload) == hmac_hexdigest(WEBHOOK_HMAC_SECRET, json_dumps(payload))

receive_webhook(payload, x_signature) ==
  /\ resp' = IF /\ Truthy(WEBHOOK_HMAC_SECRET)
                /\ ~compare_digest(Or(x_signature, ""), expected_sig(payload))
             THEN Reply("receive_webhook", None, HTTP_401, NoRecord)
             ELSE Reply("receive_webhook", None, HTTP_200, [status |-> "received"])
  /\ UNCHANGED <<biotensor, API_KEY, MAX_QUEUE_SIZE, inference_requests, WEBHOOK_HMAC_SECRET, wire, redis_client,
                 inference_queue, background_tasks, submitted>>

\* What a client of POST /v1/webhook may present instead of the delivery it
\* relays: another value under a key, the items in another order, no
\* X-Signature header, or a signature made with a secret of its own.
TamperedItems == {<<"status", "SUCCEEDED">>, <<"progress", 50>>}

Relay(w) ==
  /\ wire' = w
  /\ UNCHANGED <<biotensor, API_KEY, MAX_QUEUE_SIZE, inference_requests, WEBHOOK_HMAC_SECRET, redis_client,
                 inference_queue, background_tasks, submitted, resp>>

tamper_value(item) ==
  /\ IsPost(wire)
  /\ Relay([wire EXCEPT !.payload =
              [i \in DOMAIN @ |-> IF @[i][1] = item[1] THEN item ELSE @[i]]])

tamper_order ==
  /\ IsPost(wire)
  /\ Relay([wire EXCEPT !.payload = <<@[2], @[1]>> \o SubSeq(@, 3, Len(@))])

strip_signature ==
  /\ IsPost(wire)
  /\ Relay([wire EXCEPT !.x_signature = None])

peer_sign(secret) ==
  /\ IsPost(wire)
  /\ Relay([wire EXCEPT !.x_signature = Signature(secret, wire.payload),
                        !.signed = [secret |-> secret, payload |-> wire.payload]])

\* Submissions that schedule, or do not schedule, a webhook; the model and
\* the priority play no part in the channel.
WebhookRequests ==
  {request \in InferenceRequest :
     request.model = "densenet121_chex" /\ request.priority = "NORMAL"}

InitWebhook ==
  /\ API_KEY = ""
  /\ MAX_QUEUE_SIZE = MaxQueueCfg
  /\ redis_client = [j \in JobIds |-> NoRecord]
  /\ inference_queue = <<>>
  /\ background_tasks = {}
  /\ inference_requests = 0
  /\ WEBHOOK_HMAC_SECRET \in Secrets
  /\ wire = NoWire
  /\ submitted = [j \in JobIds |-> None]
  /\ resp = [op |-> "start", job_id |-> None, code |-> HTTP_200, body |-> NoRecord]
  /\ InitBiotensor

NextWebhook ==
  \/ \E request \in WebhookRequests, x_api_key \in HeaderKeys :
        enqueue_job(request, x_api_key)
  \/ \E job_id \in JobIds : claim(job_id)
  \/ \E job_id \in JobIds, pct \in Pcts : report_progress(job_id, pct)
  \/ \E task \in background_tasks, delivered \in BOOLEAN : send_webhook(task, delivered)
  \/ \E item \in TamperedItems : tamper_value(item)
  \/ tamper_order
  \/ strip_signature
  \/ \E secret \in PeerSecrets : peer_sign(secret)
  \/ IsPost(wire) /\ receive_webhook(wire.payload, wire.x_signature)

SpecWebhook == InitWebhook /\ [][NextWebhook]_vars

\* ---------------------------------------------------------------------------
\* The model catalogue and the ETA: submissions of every model name with
\* every image count, to an empty or a loaded queue, and the two catalogue
\* endpoints.
\* ---------------------------------------------------------------------------
MaxImages == 3        \* most images in one submission

\* The names list_models returns, those get_model_info holds a detail for,
\* and the keys of base_times in estimate_processing_time.
ListedModels == {"densenet121_chex", "unet_segmentation", "ensemble"}
models_info == {"densenet121_chex"}
base_times == {"densenet121_chex", "unet_segmentation", "ensemble"}
ModelNames == ListedModels \cup {"unknown-model"}

list_models ==
  /\ resp' = Reply("list_models", None, HTTP_200,
                   [models |-> ListedModels, count |-> Cardinality(ListedModels)])
  /\ UNCHANGED <<biotensor, API_KEY, MAX_QUEUE_SIZE, inference_requests, WEBHOOK_HMAC_SECRET,
                 wire, redis_client, inference_queue, background_tasks, submitted>>

get_model_info(model_name) ==
  /\ resp' = IF model_name \notin models_info
             THEN Reply("get_model_info", None, HTTP_404, NoRecord)
             ELSE Reply("get_model_info", None, HTTP_200, [name |-> model_name])
  /\ UNCHANGED <<biotensor, API_KEY, MAX_QUEUE_SIZE, inference_requests, WEBHOOK_HMAC_SECRET,
                 wire, redis_client, inference_queue, background_tasks, submitted>>

EtaRequests ==
  [job_id : JobIds, study_id : Studies, model : ModelNames,
   priority : {"NORMAL"}, images : 0..MaxImages, callback_url : {None}]

InitModels ==
  /\ API_KEY = ""
  /\ MAX_QUEUE_SIZE = MaxQueueLen
  /\ redis_client = [j \in JobIds |-> NoRecord]
  /\ inference_queue \in SeqsUpTo(JobIds, MaxQueueLen)
  /\ background_tasks = {}
  /\ inference_requests = 0
  /\ WEBHOOK_HMAC_SECRET = DefaultSecret
  /\ wire = NoWire
  /\ submitted = [j \in JobIds |-> None]
  /\ resp = [op |-> "start", job_id |-> None, code |-> HTTP_200, body |-> NoRecord]
  /\ InitBiotensor

NextModels ==
  \/ \E request \in EtaRequests, x_api_key \in HeaderKeys :
        enqueue_job(request, x_api_key)
  \/ list_models
  \/ \E model_name \in ModelNames : get_model_info(model_name)

SpecModels == InitModels /\ [][NextModels]_vars

\* ---------------------------------------------------------------------------
\* Helpers for the properties.
\* ---------------------------------------------------------------------------
\* The names list_models returns: the model registry of the deployment.
KnownModels == {"densenet121_chex", "unet_segmentation", "ensemble"}

\* enqueue_job has no await: one submit runs at a time on the event loop.
SubmitsInFlight == 1

Authorized(x_api_key) == API_KEY = "" \/ x_api_key = API_KEY

Queued == {j \in JobIds : StatusIs(j, {"QUEUED"})}

InQueue(j) == \E i \in 1..Len(inference_queue) : inference_queue[i] = j

\* The edges of the state machine of section 4.4.
ValidTransitions ==
  { <<"QUEUED", "RUNNING">>, <<"RUNNING", "SUCCEEDED">>, <<"RUNNING", "FAILED">>,
    <<"QUEUED", "CANCELLED">>, <<"RUNNING", "CANCELLING">>,
    <<"CANCELLING", "CANCELLED">> }

\* ---------------------------------------------------------------------------
\* Properties.
\* ---------------------------------------------------------------------------

\* C1: a get-status call made right after an accepted submit of job_id, the
\* record still being the one that submit wrote, returns a record whose status
\* is QUEUED and whose job_id is the submitted job_id.
C1_StatusAfterSubmit ==
  [][ ( /\ resp.op = "enqueue_job" /\ resp.code = HTTP_200
        /\ Has(resp.job_id)
        /\ get_job_status(resp.job_id) )
      => ( /\ resp'.code = HTTP_200
           /\ resp'.body.status = "QUEUED"
           /\ "job_id" \in DOMAIN resp'.body
           /\ resp'.body.job_id = resp.job_id ) ]_vars

\* C2: a submit of a job_id that already has a record leaves the store as it
\* was, and, when it is not turned away by the key or capacity checks, either
\* answers with the original record's status or fails with DuplicateJobId.
C2_ResubmitKeepsRecord ==
  [][ \A request \in InferenceRequest, x_api_key \in HeaderKeys :
        ( Has(request.job_id) /\ enqueue_job(request, x_api_key) )
        => ( /\ redis_client' = redis_client
             /\ resp'.code \in {HTTP_200, HTTP_401, HTTP_503, DuplicateJobId}
             /\ resp'.code = HTTP_200
                  => resp'.body.status = redis_client[request.job_id].status ) ]_vars

\* C3: whatever operation runs, a job's stored status either stays or moves
\* along one edge of the state machine QUEUED -> RUNNING -> {SUCCEEDED, FAILED},
\* QUEUED -> CANCELLED, RUNNING -> CANCELLING -> CANCELLED; it never regresses.
C3_StatusMonotonic ==
  [][ \A j \in JobIds :
        ( Has(j) /\ redis_client'[j] # NoRecord )
        => ( \/ redis_client'[j].status = redis_client[j].status
             \/ <<redis_client[j].status, redis_client'[j].status>>
                  \in ValidTransitions ) ]_vars

\* C4: cancelling a QUEUED job leaves its stored status CANCELLED, where get
\* status finds it, and the job out of the queue (CANCELLED being terminal, no
\* later claim of it succeeds).
C4_CancelQueued ==
  [][ \A j \in JobIds :
        ( StatusIs(j, {"QUEUED"}) /\ cancel_job(j) )
        => ( /\ redis_client'[j] # NoRecord
             /\ redis_client'[j].status = "CANCELLED"
             /\ \A i \in 1..Len(inference_queue') : inference_queue'[i] # j ) ]_vars

\* C5: cancelling a job whose status is SUCCEEDED, FAILED or CANCELLED fails
\* with AlreadyTerminal and leaves the job's record unchanged.
C5_CancelTerminal ==
  [][ \A j \in JobIds :
        ( StatusIs(j, Terminal) /\ cancel_job(j) )
        => ( resp'.code = AlreadyTerminal /\ redis_client' = redis_client ) ]_vars

\* C6: a submit (presenting the right key, if one is configured) made while
\* the queue depth exceeds max_queue_size is rejected with QueueFull; so is a
\* submit made with max_queue_size = 0 while another submitted job is still
\* QUEUED.
C6_QueueFull ==
  [][ \A request \in InferenceRequest, x_api_key \in HeaderKeys :
        ( /\ enqueue_job(request, x_api_key)
          /\ Authorized(x_api_key)
          /\ \/ count > MAX_QUEUE_SIZE
             \/ MAX_QUEUE_SIZE = 0 /\ Queued \ {request.job_id} # {} )
        => resp'.code = HTTP_503 ]_vars

\* C7: the number of jobs in QUEUED status never exceeds max_queue_size plus
\* the submits in flight at once (so of more than max_queue_size distinct
\* submitted jobs, at least one met QueueFull).
C7_QueuedBounded ==
  Cardinality(Queued) <= MAX_QUEUE_SIZE + SubmitsInFlight

\* C8: every job whose submit was accepted and whose status is QUEUED is in the
\* queue, and the queue depth read by admission counts it.
C8_AcceptedIsEnqueued ==
  /\ \A j \in JobIds : (submitted[j] # None /\ StatusIs(j, {"QUEUED"})) => InQueue(j)
  /\ Cardinality({j \in Queued : submitted[j] # None}) <= count

\* C9: a submit naming a model the registry does not know (and passing the key
\* and capacity checks) is rejected with InvalidModel, stores no record,
\* enqueues nothing and schedules no webhook.
C9_UnknownModelRejected ==
  [][ \A request \in InferenceRequest, x_api_key \in HeaderKeys :
        ( /\ request.model \notin KnownModels
          /\ enqueue_job(request, x_api_key)
          /\ Authorized(x_api_key)
          /\ ~(count > MAX_QUEUE_SIZE) )
        => ( /\ resp'.code = InvalidModel
             /\ UNCHANGED <<redis_client, inference_queue, background_tasks>> ) ]_vars

\* C10: with no job running, a job submitted as NORMAL is claimed only when no
\* job submitted as URGENT is still queued (URGENT jobs go first).
C10_UrgentFirst ==
  [][ \A j \in JobIds :
        ( /\ StatusIs(j, {"QUEUED"}) /\ submitted[j] = "NORMAL"
          /\ \A k \in JobIds : ~StatusIs(k, {"RUNNING"})
          /\ claim(j) )
        => ~\E u \in Queued : submitted[u] = "URGENT" ]_vars

\* C11: no step removes a job's record while its status is QUEUED, RUNNING or
\* CANCELLING: neither cancel nor the time-to-live deletes a non-terminal job.
C11_NonTerminalKept ==
  [][ \A j \in JobIds :
        StatusIs(j, {"QUEUED", "RUNNING", "CANCELLING"})
        => redis_client'[j] # NoRecord ]_vars

\* C12: cancelling a RUNNING job leaves its record in the store with status
\* CANCELLING (from where ack_cancel finalizes it as CANCELLED).
C12_CancelRunning ==
  [][ \A j \in JobIds :
        ( StatusIs(j, {"RUNNING"}) /\ cancel_job(j) )
        => ( /\ redis_client'[j] # NoRecord
             /\ redis_client'[j].status = "CANCELLING" ) ]_vars

\* C13: a claim succeeds only on a QUEUED job, which it sets RUNNING, every
\* other claim signals InvalidTransition, and a job that has left QUEUED is
\* never QUEUED again, so that no job is claimed twice.
C13_SingleDelivery ==
  [][ \A j \in JobIds :
        /\ claim(j) =>
             IF StatusIs(j, {"QUEUED"})
             THEN resp'.code = LifecycleOk /\ redis_client'[j].status = "RUNNING"
             ELSE resp'.code = InvalidTransition /\ redis_client' = redis_client
        /\ ( Has(j) /\ ~StatusIs(j, {"QUEUED"}) /\ redis_client'[j] # NoRecord )
             => redis_client'[j].status # "QUEUED" ]_vars

\* C16: while a job's record stands its progress stays within 0..100 and
\* never decreases, whatever operation runs.
C16_ProgressMonotonic ==
  [][ \A j \in JobIds :
        ( Has(j) /\ redis_client'[j] # NoRecord )
        => ( /\ redis_client'[j].progress \in 0..100
             /\ redis_client'[j].progress >= redis_client[j].progress ) ]_vars

Unmodified(w) ==
  /\ w.payload = w.signed.payload
  /\ w.x_signature = Signature(w.signed.secret, w.signed.payload)
SharedSecret(w) == w.signed.secret = WEBHOOK_HMAC_SECRET
Accepted == resp'.op = "receive_webhook" /\ resp'.code = HTTP_200
Rejected == resp'.op = "receive_webhook" /\ resp'.code = HTTP_401

\* C17 as stated: the receiver accepts an unmodified delivery signed with the
\* shared secret, and rejects every delivery whose payload differs from the
\* signed one, whose signature header is missing, or whose signature was made
\* with a different secret.
C17_SignatureVerified ==
  [][ ( IsPost(wire) /\ receive_webhook(wire.payload, wire.x_signature) ) =>
        /\ ( Unmodified(wire) /\ SharedSecret(wire) ) => Accepted
        /\ ( \/ wire.payload # wire.signed.payload
             \/ wire.x_signature = None
             \/ ~SharedSecret(wire) ) => Rejected ]_vars

\* C17, amended: the receiver accepts an unmodified delivery signed with the
\* shared secret, and, when its own secret is not empty, rejects every
\* delivery whose payload differs from the signed one, whose signature header
\* is missing, or whose signature was made with a different secret.
C17_SignatureVerifiedIfConfigured ==
  [][ ( IsPost(wire) /\ receive_webhook(wire.payload, wire.x_signature) ) =>
        /\ ( Unmodified(wire) /\ SharedSecret(wire) ) => Accepted
        /\ ( /\ WEBHOOK_HMAC_SECRET # ""
             /\ \/ wire.payload # wire.signed.payload
                \/ wire.x_signature = None
                \/ ~SharedSecret(wire) ) => Rejected ]_vars

\* A receiver with a secret has just refused a delivery whose payload is not
\* the one that was signed.
C17_Witness ==
  /\ WEBHOOK_HMAC_SECRET # ""
  /\ IsPost(wire)
  /\ wire.payload # wire.signed.payload
  /\ wire.x_signature # None
  /\ SharedSecret(wire)
  /\ resp = Reply("receive_webhook", None, HTTP_401, NoRecord)

C19_DeliveryFailureSwallowed ==
  [][ /\ \A task \in background_tasks, delivered \in BOOLEAN :
           send_webhook(task, delivered) =>
             /\ redis_client' = redis_client
             /\ resp' = resp
             /\ submitted' = submitted /\ inference_queue' = inference_queue
      /\ ~(background_tasks' \subseteq background_tasks) =>
           /\ resp'.op = "enqueue_job" /\ resp'.code = HTTP_200
           /\ redis_client'[resp'.job_id] # NoRecord
           /\ redis_client'[resp'.job_id].status = "QUEUED"
           /\ wire' = wire ]_vars

\* A delivery has failed, and the submission's answer and the job's record
\* stand as they were.
C19_Witness ==
  /\ wire = LoggedError
  /\ resp.op = "enqueue_job" /\ resp.code = HTTP_200
  /\ StatusIs(resp.job_id, {"QUEUED"})

\* C20: every webhook payload, scheduled or on the wire, carries job_id,
\* status, progress and a sequence number.
PayloadKeys(payload) == {payload[i][1] : i \in DOMAIN payload}
C20_PayloadHasSequence ==
  \A task \in background_tasks :
    {"job_id", "status", "progress", "sequence"} \subseteq PayloadKeys(task.payload)

\* C21: cancelling a job_id that has no record fails with NotFound and
\* changes neither the store nor the queue nor the scheduled webhooks.
C21_CancelMissing ==
  [][ \A j \in JobIds :
        ( ~Has(j) /\ cancel_job(j) )
        => ( /\ resp'.code = HTTP_404
             /\ UNCHANGED <<redis_client, inference_queue, background_tasks>> ) ]_vars

\* C22: get status of a job_id that has no record fails with NotFound, and
\* get status, found or not, changes neither the store nor the queue.
C22_StatusReadOnly ==
  [][ \A j \in JobIds :
        ( resp'.op = "get_job_status" /\ get_job_status(j) )
        => ( /\ ~Has(j) => resp'.code = HTTP_404 /\ resp'.body = NoRecord
             /\ Has(j) => resp'.code = HTTP_200 /\ resp'.body = redis_client[j]
             /\ redis_client' = redis_client
             /\ inference_queue' = inference_queue ) ]_vars

\* The status of a job that has no record was asked for and refused.
C22_Witness ==
  \E j \in JobIds :
    ~Has(j) /\ resp = Reply("get_job_status", j, HTTP_404, NoRecord)

\* C27: with an API key configured, a submit or cancel request that does not
\* present the matching key leaves the job store as it was.
C27_UnauthenticatedNoChange ==
  [][ \A x_api_key \in HeaderKeys :
        ( API_KEY # "" /\ x_api_key # API_KEY ) =>
          /\ \A request \in InferenceRequest :
               ( resp'.op = "enqueue_job" /\ enqueue_job(request, x_api_key) )
               => redis_client' = redis_client
          /\ \A j \in JobIds :
               ( resp'.op = "cancel_job" /\ cancel_request(j, x_api_key) )
               => redis_client' = redis_client ]_vars

C26_RejectedSubmitNoEffect ==
  [][ /\ ( /\ resp' # resp /\ resp'.op = "enqueue_job"
           /\ resp'.code \in {HTTP_401, HTTP_503} ) =>
             /\ redis_client' = redis_client
             /\ inference_requests' = inference_requests
             /\ background_tasks' = background_tasks
      /\ ( \/ inference_requests' # inference_requests
           \/ ~(background_tasks' \subseteq background_tasks) ) =>
             /\ resp'.op = "enqueue_job" /\ resp'.code = HTTP_200
             /\ redis_client'[resp'.job_id] # NoRecord
             /\ redis_client'[resp'.job_id].status = "QUEUED"
             /\ inference_requests' = inference_requests + 1
             /\ \A task \in background_tasks' \ background_tasks :
                  task.payload[1] = <<"job_id", resp'.job_id>> ]_vars

\* After one accepted submission a second one was refused for its API key:
\* the counter stands at one and nothing is scheduled.
C26_Witness ==
  /\ resp.op = "enqueue_job" /\ resp.code = HTTP_401
  /\ inference_requests = 1
  /\ background_tasks = {}
  /\ \E j \in JobIds : Has(j)

\* C23: the ETA in the response of an accepted submission is the model's base
\* time (30 for densenet121_chex, 45 for unet_segmentation, 60 for ensemble,
\* 30 for any other model) plus 5 per image, whatever the queue holds.
BaseTime(model) ==
  IF model = "densenet121_chex" THEN 30
  ELSE IF model = "unet_segmentation" THEN 45
  ELSE IF model = "ensemble" THEN 60
  ELSE 30
C23_EtaPure ==
  [][ \A request \in EtaRequests, x_api_key \in HeaderKeys :
        ( /\ resp'.op = "enqueue_job" /\ resp'.code = HTTP_200
          /\ resp'.job_id = request.job_id
          /\ enqueue_job(request, x_api_key) )
        => resp'.body.estimated_time = BaseTime(request.model) + 5 * request.images ]_vars

\* An ensemble job of three images was accepted while another job was
\* queued, with an ETA of 75.
C23_Witness ==
  /\ inference_queue # <<>>
  /\ resp.op = "enqueue_job" /\ resp.code = HTTP_200
  /\ redis_client[resp.job_id].model = "ensemble"
  /\ resp.body.estimated_time = 75

\* C28: every model name list_models returns is found by get_model_info,
\* which answers NotFound only for names that are not listed, and every model
\* with a base time of its own in the estimator is listed.
C28_CatalogueConsistent ==
  [][ /\ base_times \subseteq ListedModels
      /\ \A model_name \in ModelNames :
           ( resp'.op = "get_model_info" /\ get_model_info(model_name) )
           => ( resp'.code = HTTP_404 <=> model_name \notin ListedModels ) ]_vars

\* ---------------------------------------------------------------------------
\* biotensor-agi, data-ingestion/fhir_client.py: FHIRClient._make_request.
\* A token is the number of the issue that produced it; 0 is "no token".
\* call.headers is the token in the Authorization header of kwargs,
\* call.requests the requests sent by the call, each with the header it
\* carried and the client's token at that moment.
\* ---------------------------------------------------------------------------
Replies == {"200", "401", "500", "RequestError"}

\* The start-up of the inference service, which these components do not touch.
InitIdleService ==
  /\ API_KEY = ""
  /\ MAX_QUEUE_SIZE = MaxQueueCfg
  /\ redis_client = [j \in JobIds |-> NoRecord]
  /\ inference_queue = <<>>
  /\ background_tasks = {}
  /\ inference_requests = 0
  /\ WEBHOOK_HMAC_SECRET = DefaultSecret
  /\ wire = NoWire
  /\ submitted = [j \in JobIds |-> None]
  /\ resp = [op |-> "start", job_id |-> None, code |-> HTTP_200, body |-> NoRecord]

Raised(frame, error) == [frame EXCEPT !.pc = "raised", !.result = error]

\* Lines 117-125: _ensure_authenticated, the headers, and the entry of the
\* loop.  expired is the clock's answer to utcnow() >= _token_expiry, auth_ok
\* whether the token endpoint answers the POST of _authenticate_oauth.
make_request(max_retries, expired, auth_ok) ==
  /\ call.pc # "loop"
  /\ access_token + max_retries <= MaxTokens
  /\ LET stale == access_token = 0 \/ expired
         token == IF stale THEN access_token + 1 ELSE access_token
         frame == [NoCall EXCEPT !.max_retries = max_retries]
     IN IF stale /\ ~auth_ok
        THEN /\ call' = Raised(frame, "token endpoint error")
             /\ UNCHANGED access_token
        ELSE /\ access_token' = token
             /\ call' = [frame EXCEPT
                           !.pc = IF max_retries = 0 THEN "returned" ELSE "loop",
                           !.headers = token]
  /\ UNCHANGED <<medimetrics, task_queue, active_tasks, loop_request, resubmitted>>

\* Lines 126-140: one iteration of the loop, with the server's reply.
attempt_request(reply, auth_ok) ==
  /\ call.pc = "loop"
  /\ LET sent == [call EXCEPT !.requests =
                    Append(@, [authorization |-> call.headers,
                               access_token |-> access_token])]
         more == call.attempt < call.max_retries - 1
         again == [sent EXCEPT !.attempt = @ + 1]
     IN CASE reply = "200" ->
               /\ call' = [sent EXCEPT !.pc = "returned", !.result = "response 200"]
               /\ UNCHANGED access_token
          [] reply = "401" /\ more ->
               IF auth_ok
               THEN /\ access_token' = access_token + 1
                    /\ call' = again
               ELSE /\ call' = Raised(sent, "token endpoint error")
                    /\ UNCHANGED access_token
          [] reply \in {"401", "500"} /\ ~(reply = "401" /\ more) ->
               /\ call' = Raised(sent, "HTTPStatusError " \o reply)
               /\ UNCHANGED access_token
          [] reply = "RequestError" ->
               /\ call' = IF more THEN again ELSE Raised(sent, "RequestError")
               /\ UNCHANGED access_token
  /\ UNCHANGED <<medimetrics, task_queue, active_tasks, loop_request, resubmitted>>

InitFhir == InitIdleService /\ InitBiotensor

NextFhir ==
  \/ \E max_retries \in 0..MaxRetries, expired \in BOOLEAN, auth_ok \in BOOLEAN :
        make_request(max_retries, expired, auth_ok)
  \/ \E reply \in Replies, auth_ok \in BOOLEAN : attempt_request(reply, auth_ok)

SpecFhir == InitFhir /\ [][NextFhir]_vars

\* C30: a call of _make_request sends at most max_retries requests; it ends
\* by returning a successful response or by raising an error, never by
\* returning without a response; and every request it sends, the one retried
\* after a 401 included, carries the client's current (refreshed) access
\* token in its Authorization header.
C30_RetryContract ==
  /\ Len(call.requests) <= call.max_retries
  /\ call.pc = "returned" => call.result = "response 200"
  /\ call.pc = "raised" => call.result # "None"
  /\ \A i \in DOMAIN call.requests :
       call.requests[i].authorization = call.requests[i].access_token

\* ---------------------------------------------------------------------------
\* biotensor-agi, agents/orchestrator.py: AgentOrchestrator.  The methods are
\* coroutines of one event loop, so each runs without interleaving up to its
\* next suspending await: submit_task as a whole (put on an unbounded queue
\* does not suspend), process_tasks from the return of get() to the await of
\* agent.process, and from there to the next get().
\* ---------------------------------------------------------------------------
\* routing_map of _route_task, and the agents __init__ registers.
routing_map ==
  [type \in {"triage", "diagnosis", "risk_assessment"} |->
     IF type = "triage" THEN "triage_agent" ELSE "diagnostic_agent"]
agents == {"triage_agent", "diagnostic_agent"}

route_task(request) ==
  IF request.type \in DOMAIN routing_map /\ routing_map[request.type] \in agents
  THEN routing_map[request.type]
  ELSE "None"

get_task_status(task_id) == active_tasks[task_id]

submit_task(request) ==
  /\ Len(task_queue) < MaxTasks
  /\ task_queue' = Append(task_queue, request)
  /\ active_tasks' = [active_tasks EXCEPT ![request.id] = [status |-> "queued"]]
  /\ resubmitted' = IF active_tasks[request.id] # NoTask
                    THEN resubmitted \cup {request.id} ELSE resubmitted
  /\ UNCHANGED <<medimetrics, loop_request, access_token, call>>

\* Lines 561-562: get() returns the oldest request; its status is set.
process_tasks_get ==
  /\ loop_request = NoRequest
  /\ task_queue # <<>>
  /\ loop_request' = Head(task_queue)
  /\ task_queue' = Tail(task_queue)
  /\ active_tasks' = [active_tasks EXCEPT ![Head(task_queue).id].status = "processing"]
  /\ UNCHANGED <<medimetrics, resubmitted, access_token, call>>

\* Lines 565-589: routing, agent.process and the status it ends in; raises
\* says whether agent.process raises an Exception.  The loop then returns
\* to get().
process_tasks_dispatch(raises) ==
  /\ loop_request # NoRequest
  /\ active_tasks' =
       [active_tasks EXCEPT ![loop_request.id] =
          IF route_task(loop_request) = "None"
          THEN [status |-> "failed", error |-> "No agent available for task type"]
          ELSE IF raises
          THEN [status |-> "failed", error |-> "str(e)"]
          ELSE [status |-> "completed", result |-> route_task(loop_request)]]
  /\ loop_request' = NoRequest
  /\ UNCHANGED <<medimetrics, task_queue, resubmitted, access_token, call>>

process_tasks ==
  \/ process_tasks_get
  \/ \E raises \in BOOLEAN : process_tasks_dispatch(raises)

InitOrchestrator == InitIdleService /\ InitBiotensor

NextOrchestrator ==
  \/ \E request \in TaskRequest : submit_task(request)
  \/ process_tasks

\* process_tasks is one task of the event loop: it runs whenever it can.
SpecOrchestrator ==
  InitOrchestrator /\ [][NextOrchestrator]_vars /\ WF_vars(process_tasks)

\* The order of statuses of one task.
TaskTransitions ==
  {<<"not_found", "queued">>, <<"queued", "processing">>,
   <<"processing", "completed">>, <<"processing", "failed">>}

Settled(task_id) == get_task_status(task_id).status \in {"completed", "failed"}
Pending(task_id) == get_task_status(task_id).status \in {"queued", "processing"}

\* The requests for task_id the orchestrator still holds.
Held(task_id) ==
  Cardinality({i \in DOMAIN task_queue : task_queue[i].id = task_id})
    + (IF loop_request # NoRequest /\ loop_request.id = task_id THEN 1 ELSE 0)

\* C29 (as stated): the status of every task id changes only along
\* queued -> processing -> (completed | failed), a step of process_tasks
\* changes the status of the task it holds only, and under a fair
\* process_tasks every pending task is eventually completed or failed.
C29_TaskLifecycle ==
  /\ [][ \A task_id \in TaskIds :
           active_tasks'[task_id] # active_tasks[task_id] =>
             <<active_tasks[task_id].status, active_tasks'[task_id].status>>
               \in TaskTransitions ]_vars
  /\ \A task_id \in TaskIds : Pending(task_id) ~> Settled(task_id)

\* What does hold of the orchestrator: the same for every task id that was
\* passed to submit_task once; such a task is held exactly once while pending
\* and no longer when settled.  A failure never replaces a completed status,
\* whatever the id, and the loop goes on after a failure.
TaskLifecycleUniqueIds ==
  /\ [][ \A task_id \in TaskIds :
           /\ ( task_id \notin resubmitted' /\
                active_tasks'[task_id] # active_tasks[task_id] ) =>
                  <<active_tasks[task_id].status, active_tasks'[task_id].status>>
                    \in TaskTransitions
           /\ ( task_id \notin resubmitted' ) =>
                  Held(task_id)' = (IF Pending(task_id)' THEN 1 ELSE 0)
           /\ ~( active_tasks[task_id].status = "completed" /\
                 active_tasks'[task_id].status = "failed" )
           /\ ( loop_request # NoRequest /\ loop_request' = NoRequest /\
                task_id # loop_request.id ) =>
                  active_tasks'[task_id] = active_tasks[task_id] ]_vars
  /\ \A task_id \in TaskIds : Pending(task_id) ~> Settled(task_id)

\* One task failed by an exception of its agent and another completed,
\* neither submitted twice.
FailedThenCompleted ==
  /\ resubmitted = {}
  /\ active_tasks["t1"] = [status |-> "failed", error |-> "str(e)"]
  /\ active_tasks["t2"].status = "completed"
  /\ task_queue = <<>> /\ loop_request = NoRequest
====
